---------------------------- MODULE Spec2Model ----------------------------
(***************************************************************************)
(* A model of EmailBot2.py: the batch cycle of main(), the deterministic   *)
(* company matcher, the AI matching pipeline, the earliest-mention search, *)
(* the row writer and the processed-email file.                            *)
(*                                                                         *)
(* Text is modelled as it is in Python: a string is a sequence of          *)
(* one-character strings, so lower(), strip(), split() and the `in`        *)
(* substring test are computed, not assumed.  A key that is absent from a  *)
(* dict is the value NoneVal.  Timestamps (ISO strings compared as         *)
(* strings by the code) are naturals with the same order.                  *)
(***************************************************************************)
EXTENDS Integers, Sequences, FiniteSets, TLC

(***************************************************************************)
(* Bounds of the model.  MaxCycles: the number of runs of main().          *)
(* MaxDeviations: the number of times, over all runs, that a collaborator  *)
(* answers otherwise than in the plain run in which every call succeeds,   *)
(* the store accepts every row and the Gemini model answers "no match"     *)
(* and "no earlier mention".                                               *)
(***************************************************************************)
MaxCycles == 2
MaxDeviations == 1

(***************************************************************************)
(* Python string primitives.                                               *)
(***************************************************************************)
NoneVal == <<"None">>

UPPERCASE == <<"A","B","C","D","E","F","G","H","I","J","K","L","M",
               "N","O","P","Q","R","S","T","U","V","W","X","Y","Z">>
LOWERCASE == <<"a","b","c","d","e","f","g","h","i","j","k","l","m",
               "n","o","p","q","r","s","t","u","v","w","x","y","z">>
Whitespace == {" ", "\t", "\n"}

lowerChar(c) ==
    IF \E i \in DOMAIN UPPERCASE : UPPERCASE[i] = c
    THEN LOWERCASE[CHOOSE i \in DOMAIN UPPERCASE : UPPERCASE[i] = c]
    ELSE c

\* Bind(F, v): F applied to the value of v, which is computed once
Bind(F(_), v) == CHOOSE r \in {F(x) : x \in {v}} : TRUE

\* the smallest member, and the k-th smallest member, of a set of numbers
Min(S) == Bind(LAMBDA T : CHOOSE i \in T : \A j \in T : i <= j, S)
Max(S) == Bind(LAMBDA T : CHOOSE i \in T : \A j \in T : j <= i, S)
Nth(S, k) ==
    Bind(LAMBDA T : CHOOSE i \in T : Cardinality({j \in T : j < i}) = k - 1, S)

\* str.lower()
lower(s) == Bind(LAMBDA t : [i \in 1..Len(t) |-> lowerChar(t[i])], s)

\* str.strip(): drops leading and trailing whitespace
strip(s) ==
    Bind(LAMBDA t :
            Bind(LAMBDA keep : IF keep = {} THEN <<>>
                               ELSE SubSeq(t, Min(keep), Max(keep)),
                 {i \in 1..Len(t) : t[i] \notin Whitespace}),
         s)

\* `sub in s` on strings (the empty string is in every string)
Contains(sub, s) ==
    \E u \in {sub}, t \in {s} :
        \E i \in 0..(Len(t) - Len(u)) : SubSeq(t, i + 1, i + Len(u)) = u

\* `x or ''` / dict.get(key, '') for a string-valued key
OrEmpty(x) == IF x = NoneVal THEN <<>> ELSE x

\* dict.get(key, default)
GetOr(x, default) == IF x = NoneVal THEN default ELSE x

\* str.split(): the maximal runs of non-whitespace characters, in order
split(s) ==
    Bind(LAMBDA t :
            LET starts == {i \in 1..Len(t) : /\ t[i] \notin Whitespace
                                             /\ (i = 1 \/ t[i - 1] \in Whitespace)}
                ends == {i \in 1..Len(t) : /\ t[i] \notin Whitespace
                                           /\ (i = Len(t) \/ t[i + 1] \in Whitespace)}
            IN  [k \in 1..Cardinality(starts) |->
                    SubSeq(t, Nth(starts, k), Nth(ends, k))],
         s)

\* s.split('@')[1] for a string that contains '@'
AfterAt(s) ==
    Bind(LAMBDA t :
            Bind(LAMBDA ats :
                    SubSeq(t, Min(ats) + 1,
                           IF Cardinality(ats) = 1 THEN Len(t) ELSE Nth(ats, 2) - 1),
                 {i \in 1..Len(t) : t[i] = "@"}),
         s)

NA == <<"N", "A">>
na == <<"n", "a">>

(***************************************************************************)
(* Opportunity ids.  uuid.uuid4() is a fresh id; a row of the sheet holds  *)
(* the id it was written with.  NoneId is Python's None (falsy).           *)
(***************************************************************************)
NoneId == <<"none", 0>>
SeedId(n) == <<"seed", n>>
Uuid(n) == <<"uuid", n>>
Truthy(id) == id # NoneId

(***************************************************************************)
(* simple_company_match(new_opportunity, existing_opportunities)           *)
(***************************************************************************)
\* line 475: the company as the matcher compares it
Normal(company) == lower(strip(OrEmpty(company)))

\* CompanyQualifies without the partial match of lines 491-494
CompanyQualifiesExactOnly(new_company, existing_company) ==
    existing_company = new_company

\* CompanyQualifies without the length test of line 492
CompanyQualifiesAnyLength(new_company, existing_company) ==
    \/ existing_company = new_company
    \/ Contains(new_company, existing_company)
    \/ Contains(existing_company, new_company)

CompanyQualifies(new_company, existing_company) ==
    \E n \in {new_company}, e \in {existing_company} :
        \/ e = n
        \/ /\ Len(n) >= 4
           /\ Len(e) >= 4
           /\ (Contains(n, e) \/ Contains(e, n))

\* simple_company_match returning the last qualifying entry, not the first
simple_company_match_last(new_opportunity, existing_opportunities) ==
    LET Hits(new_company) ==
            {i \in DOMAIN existing_opportunities :
                CompanyQualifies(new_company,
                                 Normal(existing_opportunities[i].company))}
        Last(hits) == IF hits = {} THEN NoneId
                      ELSE existing_opportunities[Max(hits)].id
    IN  Bind(LAMBDA new_company :
                IF new_company = <<>> \/ new_company = na THEN NoneId
                ELSE Bind(Last, Hits(new_company)),
             Normal(new_opportunity.contact_company))

\* simple_company_match comparing the companies as they are written
simple_company_match_raw(new_opportunity, existing_opportunities) ==
    LET Hits(new_company) ==
            {i \in DOMAIN existing_opportunities :
                CompanyQualifies(new_company,
                                 OrEmpty(existing_opportunities[i].company))}
        First(hits) == IF hits = {} THEN NoneId
                       ELSE existing_opportunities[Min(hits)].id
    IN  Bind(LAMBDA new_company :
                IF new_company = <<>> \/ new_company = na THEN NoneId
                ELSE Bind(First, Hits(new_company)),
             OrEmpty(new_opportunity.contact_company))

\* simple_company_match without the guard of lines 477-478
simple_company_match_unguarded(new_opportunity, existing_opportunities) ==
    LET Hits(new_company) ==
            {i \in DOMAIN existing_opportunities :
                CompanyQualifies(new_company,
                                 Normal(existing_opportunities[i].company))}
        First(hits) == IF hits = {} THEN NoneId
                       ELSE existing_opportunities[Min(hits)].id
    IN  Bind(LAMBDA new_company : Bind(First, Hits(new_company)),
             Normal(new_opportunity.contact_company))

simple_company_match(new_opportunity, existing_opportunities) ==
    LET Hits(new_company) ==
            {i \in DOMAIN existing_opportunities :
                CompanyQualifies(new_company,
                    lower(strip(OrEmpty(existing_opportunities[i].company))))}
        First(hits) == IF hits = {} THEN NoneId
                       ELSE existing_opportunities[Min(hits)].id
    IN  Bind(LAMBDA new_company :
                IF new_company = <<>> \/ new_company = na THEN NoneId
                ELSE Bind(First, Hits(new_company)),
             lower(strip(OrEmpty(new_opportunity.contact_company))))

(***************************************************************************)
(* find_related_opportunity_with_ai(new_opportunity, existing_opportunities,*)
(* historical_emails).  The answer of the Gemini model is the parameter    *)
(* `verdict`: [kind |-> "error"] (generate_content raises), [kind |->      *)
(* "malformed"] (the text is not JSON) or [kind |-> "json", match,         *)
(* confidence, opportunity_id].  Confidence is in hundredths.              *)
(***************************************************************************)
Sp == <<" ">>

confidence_threshold == 40
TOP_OPPORTUNITIES == 30
HISTORICAL_LIMIT == 50
RELEVANT_LIMIT == 10
RELEVANCE_THRESHOLD == 10
SHORT_CIRCUIT_SCORE == 500

common_words ==
    { <<"t","h","e">>, <<"a","n","d">>, <<"f","o","r">>, <<"w","i","t","h">>,
      <<"f","r","o","m">>, <<"t","h","i","s">>, <<"t","h","a","t">>,
      <<"a","r","e">>, <<"w","a","s">>, <<"w","i","l","l">>,
      <<"h","a","v","e">>, <<"h","a","s">>, <<"c","a","n">>, <<"b","u","t">>,
      <<"n","o","t">>, <<"y","o","u">>, <<"a","l","l">>, <<"o","u","r">>,
      <<"y","o","u","r">> }

project_terms ==
    << <<"m","o","b","i","l","e"," ","a","p","p">>,
       <<"w","e","b","s","i","t","e">>,
       <<"c","l","o","u","d">>,
       <<"t","r","a","i","n","i","n","g">>,
       <<"d","e","v","e","l","o","p","m","e","n","t">>,
       <<"r","e","d","e","s","i","g","n">>,
       <<"u","p","g","r","a","d","e">> >>

\* [seq[i] for i in range(len(seq)) if i in keep]
SelectSeqIdx(seq, keep) ==
    Bind(LAMBDA p : [k \in 1..Cardinality(p[2]) |-> p[1][Nth(p[2], k)]],
         <<seq, keep>>)

\* seq[:n]
Take(seq, n) ==
    Bind(LAMBDA t : SubSeq(t, 1, IF Len(t) < n THEN Len(t) ELSE n), seq)

\* sorted(seq, key=...): Before(x, y) says that the key of x is strictly
\* smaller than the key of y; equal keys keep their order (stable sort)
SortedBy(seq, Before(_, _)) ==
    Bind(LAMBDA t :
            Bind(LAMBDA rank : [p \in DOMAIN t |-> t[CHOOSE i \in DOMAIN t : rank[i] = p]],
                 [i \in DOMAIN t |->
                    1 + Cardinality({j \in DOMAIN t :
                            \/ Before(t[j], t[i])
                            \/ ~Before(t[i], t[j]) /\ j < i})]),
         seq)

\* list.index(x): the first position holding a value equal to x
IndexOf(seq, x) == CHOOSE i \in DOMAIN seq : seq[i] = x /\ \A j \in 1..(i - 1) : seq[j] # x

\* the email domain of the candidate (lines 208-210)
EmailDomain(new_opportunity) ==
    LET e == OrEmpty(new_opportunity.contact_email)
    IN  IF e # <<>> /\ Contains(<<"@">>, e) THEN lower(AfterAt(e)) ELSE <<>>

\* PRIORITY 1 (lines 212-231): first entry with an exact or partial company match
Priority1Hits(new_company, existing_opportunities) ==
    {i \in DOMAIN existing_opportunities :
        \E existing_company \in
                {lower(strip(OrEmpty(existing_opportunities[i].company)))} :
            \/ existing_company = new_company
            \/ Len(new_company) > 3 /\ Contains(new_company, existing_company)
            \/ Len(existing_company) > 3 /\ Contains(existing_company, new_company)}

\* the domain is looked for in the titles only
Priority2HitsInTitle(new_email_domain, existing_opportunities) ==
    {i \in DOMAIN existing_opportunities :
        Contains(new_email_domain, lower(existing_opportunities[i].title))}

\* PRIORITY 2 (lines 234-243): first entry whose title or summary holds the domain
Priority2Hits(new_email_domain, existing_opportunities) ==
    {i \in DOMAIN existing_opportunities :
        Contains(new_email_domain,
                 lower(existing_opportunities[i].title \o Sp
                       \o existing_opportunities[i].summary))}

\* the words of one text that are kept as keywords (line 263)
WordsOf(text) ==
    Bind(LAMBDA words :
            SelectSeqIdx(words, {i \in DOMAIN words : Len(strip(words[i])) > 2}),
         split(text))

\* lines 259-268: the keyword list, common words removed
Keywords(new_title, new_summary, new_company) ==
    LET part(text) == IF text # <<>> /\ text # na THEN WordsOf(text) ELSE <<>>
    IN  Bind(LAMBDA all :
                SelectSeqIdx(all, {i \in DOMAIN all : lower(all[i]) \notin common_words}),
             part(new_title) \o part(new_summary) \o part(new_company))

\* lines 250-268: the normalised fields of the candidate and its keywords
Normalised(new_opportunity) ==
    Bind(LAMBDA n : [new_company |-> n.new_company,
                     new_email_domain |-> n.new_email_domain,
                     new_title |-> n.new_title,
                     new_summary |-> n.new_summary,
                     keywords |-> Keywords(n.new_title, n.new_summary, n.new_company)],
         [new_company |-> lower(strip(OrEmpty(new_opportunity.contact_company))),
          new_email_domain |-> EmailDomain(new_opportunity),
          new_title |-> lower(OrEmpty(new_opportunity.title)),
          new_summary |-> lower(OrEmpty(new_opportunity.summary))])

\* lines 280-292: the company signal, an if / elif / elif chain.  The second
\* branch tests the length of new_company only; once it is taken the third is
\* not tried
EXACT_COMPANY == 1000
PARTIAL_COMPANY == 500
COMPANY_IN_TEXT == 200

CompanyScore(new_company, opp_text, opp_company) ==
    LET named == new_company # <<>> /\ new_company # na
    IN  IF named /\ opp_company = new_company THEN EXACT_COMPANY
        ELSE IF named /\ Len(new_company) > 3
             THEN IF Contains(new_company, opp_company)
                     \/ Contains(opp_company, new_company)
                  THEN PARTIAL_COMPANY ELSE 0
        ELSE IF named /\ Contains(new_company, opp_text) THEN COMPANY_IN_TEXT
        ELSE 0

\* lines 300-302: +10 for every element of the keyword list found in the text
KEYWORD_WEIGHT == 10

KeywordScore(keywords, opp_text) ==
    KEYWORD_WEIGHT * Cardinality({i \in DOMAIN keywords :
                                    Contains(lower(keywords[i]), opp_text)})

\* lines 276-309: the relevance score of one existing opportunity, for the
\* normalised fields n of the candidate
ScoreOf(n, opp_text, opp_company) ==
    LET company_score == CompanyScore(n.new_company, opp_text, opp_company)
        domain_score ==
            IF n.new_email_domain # <<>> /\ Contains(n.new_email_domain, opp_text)
            THEN 100 ELSE 0
        keyword_score == KeywordScore(n.keywords, opp_text)
        project_score ==
            30 * Cardinality({i \in DOMAIN project_terms :
                    /\ \/ Contains(project_terms[i], n.new_title)
                       \/ Contains(project_terms[i], n.new_summary)
                    /\ Contains(project_terms[i], opp_text)})
    IN  company_score + domain_score + keyword_score + project_score

Score(new_opportunity, opp) ==
    Bind(LAMBDA p : ScoreOf(p[1], p[2], p[3]),
         <<Normalised(new_opportunity),
           lower(opp.title \o Sp \o opp.summary \o Sp \o OrEmpty(opp.company)),
           lower(strip(OrEmpty(opp.company)))>>)

\* lines 273-314: the existing opportunities with their scores, sorted by
\* score (highest first), then by position in the list (last first); pos is
\* existing_opportunities.index(opp), the key of the sort
ScoredOpportunities(new_opportunity, existing_opportunities) ==
    LET Before(x, y) == \/ x.score > y.score
                        \/ x.score = y.score /\ x.pos > y.pos
    IN  Bind(LAMBDA p :
                SortedBy([i \in DOMAIN p[2] |->
                            [score |-> ScoreOf(p[1],
                                    lower(p[2][i].title \o Sp \o p[2][i].summary
                                          \o Sp \o OrEmpty(p[2][i].company)),
                                    lower(strip(OrEmpty(p[2][i].company)))),
                             opp |-> p[2][i],
                             pos |-> IndexOf(p[2], p[2][i])]],
                         Before),
             <<Normalised(new_opportunity), existing_opportunities>>)

\* lines 353-367: the relevance score of one historical email
relevance_score(n, sender_email, email) ==
    Bind(LAMBDA email_content :
              (IF sender_email # <<>> /\ sender_email = lower(email.sender_email)
               THEN 50 ELSE 0)
            + (IF n.new_company # <<>> /\ n.new_company # na
                  /\ Contains(n.new_company, email_content)
               THEN 30 ELSE 0)
            + 5 * Cardinality({i \in DOMAIN n.keywords :
                                  Contains(lower(n.keywords[i]), email_content)}),
         lower(email.subject \o Sp \o email.body))

\* lines 342-374: the historical emails deemed relevant, best first, at most 10
RelevantHistorical(new_opportunity, historical_emails) ==
    LET Before(x, y) == x.relevance_score > y.relevance_score
    IN  Bind(LAMBDA p :
            Bind(LAMBDA scored :
                    Bind(LAMBDA sorted : [i \in DOMAIN sorted |-> sorted[i].email],
                         Take(SortedBy(SelectSeqIdx(scored,
                                          {i \in DOMAIN scored :
                                             scored[i].relevance_score
                                                >= RELEVANCE_THRESHOLD}),
                                       Before),
                              RELEVANT_LIMIT)),
                 [i \in DOMAIN p[3] |->
                    [relevance_score |-> relevance_score(p[1], p[2], p[3][i]),
                     email |-> p[3][i]]]),
            <<Normalised(new_opportunity),
              lower(OrEmpty(new_opportunity.contact_email)),
              Take(historical_emails, HISTORICAL_LIMIT)>>)

\* The result of find_related_opportunity_with_ai: the id returned (NoneId for
\* None), the relevant emails returned (<<>> for [] and for None), the place
\* of the return statement (tier) and whether generate_content was called.
Related(id, relevant, tier, called) ==
    [id |-> id, relevant |-> relevant, tier |-> tier, called |-> called]

\* the function goes on to the model with nothing to show
nothing_to_match_ignored(existing_opportunities, historical_emails) == FALSE

\* line 202: if not existing_opportunities and not historical_emails
nothing_to_match(existing_opportunities, historical_emails) ==
    existing_opportunities = <<>> /\ historical_emails = <<>>

\* the model is asked whatever the top score
short_circuit_never(scored_opportunities) == FALSE

\* line 317: the top score is high enough to return without asking the model
short_circuit(scored_opportunities) ==
    /\ scored_opportunities # <<>>
    /\ scored_opportunities[1].score >= SHORT_CIRCUIT_SCORE

\* lines 202-426: what the function does before it calls the model: it has
\* returned (result), or it is about to call with relevant_historical
BeforeCall(new_opportunity, existing_opportunities, historical_emails) ==
    LET Returns(result) == [returned |-> TRUE, result |-> result,
                            relevant_historical |-> <<>>]
        first(hits) == existing_opportunities[Min(hits)].id
        Scored(scored_opportunities) ==
            IF short_circuit(scored_opportunities)
            THEN Returns(Related(scored_opportunities[1].opp.id, <<>>, "score", FALSE))
            ELSE [returned |-> FALSE, result |-> Related(NoneId, <<>>, "call", TRUE),
                  relevant_historical |->
                        RelevantHistorical(new_opportunity, historical_emails)]
        Domain(new_email_domain, hits2) ==
            IF new_email_domain # <<>> /\ hits2 # {}
            THEN Returns(Related(first(hits2), <<>>, "domain", FALSE))
            ELSE Bind(Scored,
                      ScoredOpportunities(new_opportunity, existing_opportunities))
        Company(new_company, hits1) ==
            IF new_company # <<>> /\ new_company # na /\ hits1 # {}
            THEN Returns(Related(first(hits1), <<>>, "priority1", FALSE))
            ELSE Bind(LAMBDA d : Domain(d, Priority2Hits(d, existing_opportunities)),
                      EmailDomain(new_opportunity))
    IN  IF nothing_to_match(existing_opportunities, historical_emails)
        THEN Returns(Related(NoneId, <<>>, "empty", FALSE))
        ELSE Bind(LAMBDA c : Company(c, Priority1Hits(c, existing_opportunities)),
                  lower(strip(OrEmpty(new_opportunity.contact_company))))

\* only the except clause of line 463
CaughtJsonOnly(verdict) == verdict.kind = "malformed"

\* lines 463-470: the except clauses around the call.  A response that is not
\* JSON raises json.JSONDecodeError (line 463); an error of generate_content
\* raises a subclass of Exception (line 467)
Caught(verdict) == verdict.kind \in {"malformed", "error"}

\* a verdict that says match is accepted whatever its confidence
AfterCall_any_confidence(before, verdict) ==
    IF before.returned THEN before.result
    ELSE IF verdict.kind # "json"
    THEN Related(NoneId, <<>>, "oracle_failed", TRUE)
    ELSE IF verdict.match
    THEN Related(verdict.opportunity_id, before.relevant_historical, "oracle", TRUE)
    ELSE Related(NoneId, before.relevant_historical, "oracle_rejected", TRUE)

\* lines 428-470: the call of the model and what is made of its answer
AfterCall(before, verdict) ==
    IF before.returned THEN before.result
    ELSE IF verdict.kind # "json"
    THEN Related(NoneId, <<>>, IF Caught(verdict) THEN "oracle_failed" ELSE "raised",
                 TRUE)
    ELSE IF verdict.match /\ verdict.confidence >= confidence_threshold
    THEN Related(verdict.opportunity_id, before.relevant_historical, "oracle", TRUE)
    ELSE Related(NoneId, before.relevant_historical, "oracle_rejected", TRUE)

find_related_opportunity_with_ai(new_opportunity, existing_opportunities, historical_emails, verdict) ==
    AfterCall(BeforeCall(new_opportunity, existing_opportunities, historical_emails),
              verdict)

\* lines 326: the opportunities shown to the model
TopOpportunities(new_opportunity, existing_opportunities) ==
    LET scored == Take(ScoredOpportunities(new_opportunity, existing_opportunities),
                       TOP_OPPORTUNITIES)
    IN  [i \in DOMAIN scored |-> scored[i].opp]

(***************************************************************************)
(* find_earliest_mention(opportunity_data, relevant_historical_emails).    *)
(* The answer of the model is `mention`: [kind |-> "error"], or [kind |->  *)
(* "json", email_number, confidence]; email_number 0 stands for null.      *)
(* The result is a received_date, or NoneTime for None.  The index         *)
(* email_number - 1 is a Python list index: a negative one counts from the *)
(* end of the list, and one outside the list raises IndexError, which line *)
(* 556 catches.                                                            *)
(***************************************************************************)
NoneTime == 0
mention_threshold == 70
MENTION_LIMIT == 15

\* list[k] of Python as a position of the sequence: k from 0, a negative k
\* from the end; a position outside the sequence stands for IndexError
PyIndex(list, k) == IF k >= 0 THEN k + 1 ELSE Len(list) + k + 1

\* the model is asked even when there is no email to show
mention_asked_always(relevant_historical_emails) == TRUE

\* lines 501-502: without relevant emails (an empty list or None) the function
\* returns None before it reaches the model
mention_asked(relevant_historical_emails) == relevant_historical_emails # <<>>

find_earliest_mention(relevant_historical_emails, mention) ==
    LET Before(x, y) == x.received_date < y.received_date
        sorted_emails == SortedBy(relevant_historical_emails, Before)
    IN  IF ~mention_asked(relevant_historical_emails) THEN NoneTime
        ELSE IF mention.kind # "json" THEN NoneTime
        ELSE IF /\ mention.email_number # 0
                /\ mention.confidence >= mention_threshold
                /\ mention.email_number <= Len(sorted_emails)
        THEN IF PyIndex(sorted_emails, mention.email_number - 1) \in DOMAIN sorted_emails
             THEN sorted_emails[PyIndex(sorted_emails, mention.email_number - 1)].received_date
             ELSE NoneTime
        ELSE NoneTime


(***************************************************************************)
(* The state.                                                              *)
(*   Environment: the mailbox (archive: mail older than the 24 hour        *)
(*   window, inbox: mail inside it, pending: mail not yet delivered), the  *)
(*   two sheets of the workbook, processed_emails.json and                 *)
(*   last_run_timestamp.txt.                                               *)
(*   main(): its locals, and pc, the place main() is at.                   *)
(*   History: what the running cycle has done so far.                      *)
(***************************************************************************)
VARIABLES
    archive, inbox, pending,
    sheet_opportunities, sheet_interactions,
    file_state, file_ids, timestamp_file,
    cycle, deviations, uuid_count,
    pc, processed_emails, existing_opportunities_list, historical_emails,
    new_messages, msg_index, opportunities, opp_index,
    new_opportunity_rows, interaction_rows,
    start_ids, start_stamp, start_state, list_failed, candidates, log, inserted,
    rejected, saved, ended, failed_at

env_vars == <<archive, inbox, pending, sheet_opportunities, sheet_interactions,
              file_state, file_ids, timestamp_file>>
run_vars == <<pc, processed_emails, existing_opportunities_list, historical_emails,
              new_messages, msg_index, opportunities, opp_index,
              new_opportunity_rows, interaction_rows>>
hist_vars == <<start_ids, start_stamp, start_state, list_failed, candidates, log,
               inserted, rejected, saved, ended, failed_at>>
vars == <<env_vars, cycle, deviations, uuid_count, run_vars, hist_vars>>

N_A == <<"N","/","A">>
eucloid == <<"@","e","u","c","l","o","i","d",".","c","o","m">>
noreply == <<"n","o","r","e","p","l","y">>
BODY_LIMIT == 500

(***************************************************************************)
(* load_processed_emails / save_processed_emails / the timestamp file      *)
(***************************************************************************)
\* load_processed_emails(): the ids in the file, the empty set when the file
\* does not exist (a file that is not JSON raises: see StartFails)
load_processed_emails == IF file_state = "ok" THEN file_ids ELSE {}

\* the set is replaced by the id of the last email
mark_processed_forgetting(processed, msg_id) == {msg_id}

\* line 897: processed_emails.add(msg_id)
mark_processed(processed, msg_id) == processed \cup {msg_id}

(***************************************************************************)
(* get_existing_opportunities_for_ai: columns 0, 2, 5, 9 of each row       *)
(***************************************************************************)
get_existing_opportunities_for_ai(rows) ==
    [i \in DOMAIN rows |->
        [id |-> rows[i].id, summary |-> rows[i].summary,
         title |-> rows[i].title, company |-> rows[i].company]]

(***************************************************************************)
(* get_all_historical_emails: the mail of the last six months, oldest      *)
(* first, without internal and automated senders                           *)
(***************************************************************************)
ByReceived(seq) ==
    LET Before(x, y) == x.receivedDateTime < y.receivedDateTime
    IN  SortedBy(seq, Before)

get_all_historical_emails(mail) ==
    LET Kept(emails) ==
            SelectSeqIdx(emails, {i \in DOMAIN emails :
                    /\ ~Contains(eucloid, lower(emails[i].sender_email))
                    /\ ~Contains(noreply, lower(emails[i].sender_email))})
    IN  Bind(LAMBDA kept :
                [i \in DOMAIN kept |->
                    [id |-> kept[i].id, subject |-> kept[i].subject,
                     body |-> kept[i].body,
                     sender_email |-> lower(kept[i].sender_email),
                     received_date |-> kept[i].receivedDateTime]],
             Bind(Kept, ByReceived(mail)))

(***************************************************************************)
(* main(), lines 718-730: sort by receivedDateTime, drop the processed     *)
(***************************************************************************)
\* FilterNew without the test of line 727
FilterNewKeepsAll(messages, processed) == messages

FilterNew(messages, processed) ==
    SelectSeqIdx(messages, {i \in DOMAIN messages : messages[i].id \notin processed})

\* the messages are taken in the order the mail source returned them
sort_messages_as_returned(messages) == messages

\* line 718: messages.sort(key=lambda msg: msg['receivedDateTime'])
sort_messages(messages) == ByReceived(messages)

NewMessages(messages, processed) == FilterNew(sort_messages(messages), processed)

\* every order in which the mail source may return the same messages
Orders(seq) ==
    {p \in [DOMAIN seq -> DOMAIN seq] : \A i, j \in DOMAIN seq : i # j => p[i] # p[j]}
Reordered(seq, p) == [i \in DOMAIN seq |-> seq[p[i]]]

(***************************************************************************)
(* main(), lines 762-894: the resolution of one candidate.                 *)
(***************************************************************************)
\* lines 764-769
enhanced_opp(opp, msg) ==
    [opp EXCEPT !.contact_email =
        IF OrEmpty(opp.contact_email) # <<>> THEN opp.contact_email
        ELSE lower(msg.sender_email)]

\* lines 831-837
temp_opp(msg) ==
    [title |-> msg.subject, summary |-> Take(msg.body, BODY_LIMIT),
     contact_company |-> NA, contact_email |-> lower(msg.sender_email)]

\* lines 772 and 784 (840 and 852): the deterministic matcher, and, when it
\* finds nothing, find_related_opportunity_with_ai up to its call of the model
Tiers(new_opp, existing, historical) ==
    Bind(LAMBDA company_match_id :
            [company_match_id |-> company_match_id,
             before |-> IF Truthy(company_match_id)
                        THEN [returned |-> TRUE,
                              result |-> Related(NoneId, <<>>, "simple", FALSE),
                              relevant_historical |-> <<>>]
                        ELSE BeforeCall(new_opp, existing, historical)],
         simple_company_match(new_opp, existing))

\* lines 774-803 (842-871): the decision
Decide(tiers, received_dt, fresh_id, verdict, mention) ==
    LET related == AfterCall(tiers.before, verdict)
        earliest_mention_date == find_earliest_mention(related.relevant, mention)
    IN  IF Truthy(tiers.company_match_id)
        THEN [id |-> tiers.company_match_id, tier |-> "simple", called |-> FALSE,
              created |-> FALSE, first_mention |-> NoneTime,
              mention_called |-> FALSE, relevant |-> <<>>]
        ELSE IF Truthy(related.id)
        THEN [id |-> related.id, tier |-> related.tier, called |-> related.called,
              created |-> FALSE, first_mention |-> NoneTime,
              mention_called |-> FALSE, relevant |-> related.relevant]
        ELSE [id |-> fresh_id, tier |-> related.tier, called |-> related.called,
              created |-> TRUE,
              first_mention |-> IF earliest_mention_date # NoneTime
                                THEN earliest_mention_date ELSE received_dt,
              mention_called |-> mention_asked(related.relevant),
              relevant |-> related.relevant]

Resolve(new_opp, existing, historical, received_dt, fresh_id, verdict, mention) ==
    Decide(Tiers(new_opp, existing, historical), received_dt, fresh_id, verdict, mention)

(***************************************************************************)
(* The answers the Gemini model may give.                                  *)
(***************************************************************************)
NoVerdict == [kind |-> "none", match |-> FALSE, confidence |-> 0,
              opportunity_id |-> NoneId]
UnknownId == SeedId(0)

VerdictIds(existing) ==
    {NoneId, UnknownId}
    \cup (IF existing = <<>> THEN {} ELSE {existing[1].id, existing[Len(existing)].id})

PlainVerdict == [kind |-> "json", match |-> FALSE, confidence |-> 90,
                 opportunity_id |-> NoneId]

Verdicts(existing) ==
    {PlainVerdict}
    \cup {[NoVerdict EXCEPT !.kind = k] : k \in {"error", "malformed"}}
    \cup {[kind |-> "json", match |-> TRUE, confidence |-> confidence_threshold - 10,
           opportunity_id |-> id] : id \in VerdictIds(existing) \ {NoneId, UnknownId}}
    \cup {[kind |-> "json", match |-> TRUE, confidence |-> confidence_threshold,
           opportunity_id |-> id] : id \in VerdictIds(existing)}

NoMention == [kind |-> "none", email_number |-> 0, confidence |-> 0]
PlainMention == [kind |-> "json", email_number |-> 0, confidence |-> 90]

Mentions(relevant) ==
    {PlainMention, [NoMention EXCEPT !.kind = "error"],
     [kind |-> "json", email_number |-> 1, confidence |-> mention_threshold - 1]}
    \cup {[kind |-> "json", email_number |-> n, confidence |-> mention_threshold] :
            n \in {1, Len(relevant), Len(relevant) + 1, -1}}

Deviates(answer) == answer \notin {NoVerdict, PlainVerdict, NoMention, PlainMention}

(***************************************************************************)
(* main(), lines 688-738: load the processed ids, authenticate, read the   *)
(* sheet, the historical mail and the mail of the last 24 hours, sort and  *)
(* filter.  A failure to read the sheet is caught inside                   *)
(* get_existing_opportunities_for_ai, which then returns [].               *)
(***************************************************************************)
ResetHistory ==
    /\ start_ids' = file_ids
    /\ start_stamp' = timestamp_file
    /\ start_state' = file_state
    /\ candidates' = 0
    /\ log' = <<>>
    /\ inserted' = 0
    /\ rejected' = 0
    /\ saved' = FALSE

StartCycle ==
    /\ pc = "idle"
    /\ cycle < MaxCycles
    /\ file_state # "corrupt"
    /\ \E n \in 0..Len(pending), list_ok \in BOOLEAN :
        LET window == inbox \o SubSeq(pending, 1, n)
        IN  \E p \in Orders(window) :
            /\ list_ok \/ deviations < MaxDeviations
            /\ deviations' = IF list_ok THEN deviations ELSE deviations + 1
            /\ inbox' = window
            /\ pending' = SubSeq(pending, n + 1, Len(pending))
            /\ processed_emails' = load_processed_emails
            /\ existing_opportunities_list' =
                    IF list_ok THEN get_existing_opportunities_for_ai(sheet_opportunities)
                    ELSE <<>>
            /\ historical_emails' = get_all_historical_emails(archive \o window)
            /\ new_messages' = NewMessages(Reordered(window, p), load_processed_emails)
            /\ list_failed' = ~list_ok
    /\ cycle' = cycle + 1
    /\ pc' = IF new_messages' = <<>> THEN "save" ELSE "parse"
    /\ msg_index' = 1
    /\ opportunities' = <<>>
    /\ opp_index' = 1
    /\ new_opportunity_rows' = <<>>
    /\ interaction_rows' = <<>>
    /\ ResetHistory
    /\ ended' = "running"
    /\ failed_at' = "none"
    /\ UNCHANGED <<archive, sheet_opportunities, sheet_interactions,
                   file_state, file_ids, timestamp_file, uuid_count>>

\* an exception before the loop: the processed-email file is not JSON, the
\* token cannot be acquired, the share link does not resolve, or the mail
\* cannot be fetched.  main() logs it and re-raises (lines 912-914).
StartFails ==
    /\ pc = "idle"
    /\ cycle < MaxCycles
    /\ \E step \in {"load_processed_emails", "get_access_token", "get_excel_file_id",
                    "get_all_historical_emails", "fetch"} :
        /\ IF step = "load_processed_emails"
           THEN file_state = "corrupt" /\ deviations' = deviations
           ELSE /\ file_state # "corrupt"
                /\ deviations < MaxDeviations
                /\ deviations' = deviations + 1
        /\ failed_at' = step
    /\ cycle' = cycle + 1
    /\ ResetHistory
    /\ list_failed' = FALSE
    /\ ended' = "fatal"
    /\ UNCHANGED <<env_vars, uuid_count, run_vars>>

(***************************************************************************)
(* main(), line 758: parse_email_for_opportunities.  On success the model  *)
(* returns the candidates of the email (msg.opps); an exception inside is  *)
(* caught and gives []; a JSON value that is not a list of objects is      *)
(* returned as it is, and the loop at lines 762-769 raises on it.          *)
(***************************************************************************)
Fatal(step) ==
    /\ pc' = "idle"
    /\ ended' = "fatal"
    /\ failed_at' = step

ParseEmail ==
    /\ pc = "parse"
    /\ \E outcome \in {"ok", "failed", "malformed"} :
        /\ outcome = "ok" \/ deviations < MaxDeviations
        /\ deviations' = IF outcome = "ok" THEN deviations ELSE deviations + 1
        /\ IF outcome = "malformed"
           THEN /\ Fatal("parse_email_for_opportunities")
                /\ UNCHANGED <<opportunities, candidates>>
           ELSE /\ opportunities' = IF outcome = "ok"
                                    THEN new_messages[msg_index].opps ELSE <<>>
                /\ pc' = IF opportunities' = <<>> THEN "general" ELSE "resolve"
                /\ candidates' = candidates + (IF opportunities' = <<>> THEN 1
                                                ELSE Len(opportunities'))
                /\ UNCHANGED <<ended, failed_at>>
    /\ opp_index' = 1
    /\ UNCHANGED <<env_vars, cycle, uuid_count, processed_emails,
                   existing_opportunities_list, historical_emails, new_messages,
                   msg_index, new_opportunity_rows, interaction_rows,
                   start_ids, start_stamp, start_state, list_failed, log, inserted,
                   rejected, saved>>

(***************************************************************************)
(* main(), lines 762-827 (a candidate) and 828-894 (an email without       *)
(* candidates): resolve, emit the rows, extend the matching list; after    *)
(* the last candidate of the email, line 897 marks the email processed.    *)
(***************************************************************************)
\* line 826 without the append
add_to_matching_list_dropped(list, new_opp_for_matching) == list

\* the new opportunity is put in front of the list
add_to_matching_list_in_front(list, new_opp_for_matching) == <<new_opp_for_matching>> \o list

\* lines 820-826 (888-893): the new opportunity joins the list that the next
\* resolutions match against
add_to_matching_list(list, new_opp_for_matching) == Append(list, new_opp_for_matching)

\* an interaction row only where an opportunity is created
append_interaction_created_only(rows, res, row) ==
    IF res.created THEN Append(rows, row) ELSE rows

\* lines 776-779, 792-795, 814-817 (844-847, 860-863, 881-884): every branch of
\* the resolution appends one interaction row
append_interaction(rows, res, row) == Append(rows, row)

\* what the resolution of new_opp does to the rows, the list and the history
Emit(msg, opp, new_opp, general, res, verdict, mention) ==
    LET title == IF general THEN msg.subject ELSE GetOr(opp.title, msg.subject)
        summary == IF general THEN Take(msg.body, BODY_LIMIT) ELSE GetOr(opp.summary, N_A)
        company == IF general THEN NA ELSE GetOr(opp.contact_company, NA)
        kind == IF general THEN "General Communication"
                ELSE IF res.created THEN "New Lead" ELSE "Follow-up"
    IN  /\ interaction_rows' = append_interaction(interaction_rows, res,
                [id |-> res.id, occurred_at |-> msg.receivedDateTime,
                 kind |-> kind, msg |-> msg.id])
        /\ new_opportunity_rows' =
                IF res.created
                THEN Append(new_opportunity_rows,
                        [id |-> res.id, company |-> company, title |-> title,
                         status |-> IF general THEN "General Communication" ELSE "New Lead",
                         first_mention |-> res.first_mention,
                         summary |-> summary, msg |-> msg.id])
                ELSE new_opportunity_rows
        /\ existing_opportunities_list' =
                IF res.created
                THEN add_to_matching_list(existing_opportunities_list,
                        [id |-> res.id, summary |-> summary, title |-> title,
                         company |-> company])
                ELSE existing_opportunities_list
        /\ uuid_count' = IF res.created THEN uuid_count + 1 ELSE uuid_count
        /\ log' = Append(log,
                [msg |-> msg.id, received |-> msg.receivedDateTime,
                 opp |-> new_opp, general |-> general,
                 registry |-> existing_opportunities_list,
                 id |-> res.id, tier |-> res.tier, created |-> res.created,
                 called |-> res.called, verdict |-> IF res.called THEN verdict ELSE NoVerdict,
                 mention_called |-> res.mention_called,
                 mention |-> IF res.mention_called THEN mention ELSE NoMention,
                 relevant |-> res.relevant,
                 first_mention |-> res.first_mention])

\* one id for every creation
uuid4_repeated == Uuid(1)

\* lines 798 and 866: str(uuid.uuid4()), a random 122-bit value, taken as an id
\* that no earlier call returned
uuid4 == Uuid(uuid_count + 1)

\* the answers of the model are drawn where a call is reached; an exception
\* that find_related_opportunity_with_ai does not catch leaves main() through
\* lines 912-914, otherwise the rows are emitted and the loop goes on (next)
ResolveWith(msg, opp, new_opp, general, next) ==
    \E tiers \in {Tiers(new_opp, existing_opportunities_list, historical_emails)} :
    \E verdict \in IF tiers.before.returned THEN {NoVerdict}
                    ELSE Verdicts(existing_opportunities_list) :
    \E relevant \in {AfterCall(tiers.before, verdict)} :
    \E mention \in IF ~Truthy(relevant.id) /\ mention_asked(relevant.relevant)
                    THEN Mentions(relevant.relevant) ELSE {NoMention} :
        LET answers == (IF Deviates(verdict) THEN 1 ELSE 0)
                       + (IF Deviates(mention) THEN 1 ELSE 0)
        IN  /\ deviations + answers <= MaxDeviations
            /\ deviations' = deviations + answers
            /\ IF relevant.tier = "raised"
               THEN /\ Fatal("find_related_opportunity_with_ai")
                    /\ UNCHANGED <<interaction_rows, new_opportunity_rows,
                                   existing_opportunities_list, uuid_count, log,
                                   processed_emails, msg_index, opp_index>>
               ELSE /\ \E res \in {Decide(tiers, msg.receivedDateTime, uuid4,
                                          verdict, mention)} :
                            Emit(msg, opp, new_opp, general, res, verdict, mention)
                    /\ next
                    /\ UNCHANGED <<ended, failed_at>>

\* line 897 and the end of the loop
MarkProcessed ==
    /\ processed_emails' = mark_processed(processed_emails, new_messages[msg_index].id)
    /\ msg_index' = msg_index + 1
    /\ pc' = IF msg_index = Len(new_messages) THEN "append_opportunities" ELSE "parse"

ResolveCandidate ==
    /\ pc = "resolve"
    /\ LET msg == new_messages[msg_index]
           opp == opportunities[opp_index]
       IN  ResolveWith(msg, opp, enhanced_opp(opp, msg), FALSE,
                IF opp_index = Len(opportunities)
                THEN MarkProcessed /\ opp_index' = 1
                ELSE /\ opp_index' = opp_index + 1
                     /\ UNCHANGED <<pc, processed_emails, msg_index>>)
    /\ UNCHANGED <<env_vars, cycle, historical_emails, new_messages, opportunities,
                   start_ids, start_stamp, start_state, list_failed, candidates,
                   inserted, rejected, saved>>

ResolveGeneral ==
    /\ pc = "general"
    /\ LET msg == new_messages[msg_index]
       IN  ResolveWith(msg, temp_opp(msg), temp_opp(msg), TRUE,
                MarkProcessed /\ UNCHANGED opp_index)
    /\ UNCHANGED <<env_vars, cycle, historical_emails, new_messages, opportunities,
                   start_ids, start_stamp, start_state, list_failed, candidates,
                   inserted, rejected, saved>>

(***************************************************************************)
(* append_rows_to_excel(rows, ...): one POST per row, last row first, each *)
(* inserting at index 0.  A response other than 201 is logged and the loop *)
(* goes on; an exception of requests.post leaves the function.  The store  *)
(* accepts the first `accepted` POSTs; `failure` says what happens to the  *)
(* next one: "none" (there is none), "status" (this and the later POSTs    *)
(* are answered with an error status) or "raise".                          *)
(***************************************************************************)
RowsInserted(rows, accepted) == SubSeq(rows, Len(rows) - accepted + 1, Len(rows))

append_rows_to_excel(rows, sheet, accepted) == RowsInserted(rows, accepted) \o sheet

WriteOutcomes(rows) ==
    {[accepted |-> Len(rows), failure |-> "none"]}
    \cup {[accepted |-> k, failure |-> f] :
            k \in 0..(Len(rows) - 1), f \in {"status", "raise"}}

AppendTo(rows, sheet, next_pc) ==
    \E out \in WriteOutcomes(rows) :
        /\ out.failure = "none" \/ deviations < MaxDeviations
        /\ deviations' = IF out.failure = "none" THEN deviations ELSE deviations + 1
        /\ sheet' = append_rows_to_excel(rows, sheet, out.accepted)
        /\ inserted' = inserted + out.accepted
        /\ rejected' = IF out.failure = "status"
                       THEN rejected + (Len(rows) - out.accepted) ELSE rejected
        /\ IF out.failure = "raise"
           THEN Fatal("append_rows_to_excel")
           ELSE pc' = next_pc /\ UNCHANGED <<ended, failed_at>>

\* line 900
AppendOpportunities ==
    /\ pc = "append_opportunities"
    /\ AppendTo(new_opportunity_rows, sheet_opportunities, "append_interactions")
    /\ UNCHANGED <<archive, inbox, pending, sheet_interactions,
                   file_state, file_ids, timestamp_file, cycle, uuid_count,
                   processed_emails, existing_opportunities_list, historical_emails,
                   new_messages, msg_index, opportunities, opp_index,
                   new_opportunity_rows, interaction_rows,
                   start_ids, start_stamp, start_state, list_failed, candidates,
                   log, saved>>

\* line 901 with the processed ids saved before the rows are written
AppendInteractionsAfterSave ==
    /\ pc = "append_interactions"
    /\ AppendTo(interaction_rows, sheet_interactions, "save")
    /\ file_ids' = processed_emails
    /\ file_state' = "ok"
    /\ UNCHANGED <<archive, inbox, pending, sheet_opportunities,
                   timestamp_file, cycle, uuid_count,
                   processed_emails, existing_opportunities_list, historical_emails,
                   new_messages, msg_index, opportunities, opp_index,
                   new_opportunity_rows, interaction_rows,
                   start_ids, start_stamp, start_state, list_failed, candidates,
                   log, saved>>

\* line 901
AppendInteractions ==
    /\ pc = "append_interactions"
    /\ AppendTo(interaction_rows, sheet_interactions, "save")
    /\ UNCHANGED <<archive, inbox, pending, sheet_opportunities,
                   file_state, file_ids, timestamp_file, cycle, uuid_count,
                   processed_emails, existing_opportunities_list, historical_emails,
                   new_messages, msg_index, opportunities, opp_index,
                   new_opportunity_rows, interaction_rows,
                   start_ids, start_stamp, start_state, list_failed, candidates,
                   log, saved>>

(***************************************************************************)
(* save_processed_emails (lines 736 and 904): open(..., 'w') and           *)
(* json.dump.  When open raises, the file is as it was; when the write     *)
(* raises after open has truncated the file, the file is no longer JSON.   *)
(***************************************************************************)
save_processed_emails ==
    /\ pc = "save"
    /\ \E outcome \in {"ok", "open_raises", "write_raises"} :
        /\ outcome = "ok" \/ deviations < MaxDeviations
        /\ deviations' = IF outcome = "ok" THEN deviations ELSE deviations + 1
        /\ file_ids' = IF outcome = "ok" THEN processed_emails ELSE file_ids
        /\ file_state' = CASE outcome = "ok" -> "ok"
                           [] outcome = "open_raises" -> file_state
                           [] outcome = "write_raises" -> "corrupt"
        /\ saved' = (outcome = "ok")
        /\ IF outcome = "ok" THEN pc' = "stamp" /\ UNCHANGED <<ended, failed_at>> ELSE Fatal("save_processed_emails")
    /\ UNCHANGED <<archive, inbox, pending, sheet_opportunities, sheet_interactions,
                   timestamp_file, cycle, uuid_count,
                   processed_emails, existing_opportunities_list, historical_emails,
                   new_messages, msg_index, opportunities, opp_index,
                   new_opportunity_rows, interaction_rows,
                   start_ids, start_stamp, start_state, list_failed, candidates,
                   log, inserted, rejected>>

(***************************************************************************)
(* write_last_run_timestamp (lines 737 and 905).  The timestamp of a run   *)
(* is modelled by the number of the cycle.                                 *)
(***************************************************************************)
write_last_run_timestamp ==
    /\ pc = "stamp"
    /\ \E ok \in BOOLEAN :
        /\ ok \/ deviations < MaxDeviations
        /\ deviations' = IF ok THEN deviations ELSE deviations + 1
        /\ timestamp_file' = IF ok THEN cycle ELSE timestamp_file
        /\ pc' = "idle"
        /\ ended' = IF ok THEN "complete" ELSE "fatal"
        /\ failed_at' = IF ok THEN "none" ELSE "write_last_run_timestamp"
    /\ UNCHANGED <<archive, inbox, pending, sheet_opportunities, sheet_interactions,
                   file_state, file_ids, cycle, uuid_count,
                   processed_emails, existing_opportunities_list, historical_emails,
                   new_messages, msg_index, opportunities, opp_index,
                   new_opportunity_rows, interaction_rows,
                   start_ids, start_stamp, start_state, list_failed, candidates,
                   log, inserted, rejected, saved>>

(***************************************************************************)
(* Text used by the scenarios.                                             *)
(***************************************************************************)
Acme == <<"A","c","m","e">>
ACME_padded == <<" ","A","C","M","E"," ">>
AcmeCorp == <<"A","c","m","e"," ","C","o","r","p">>
Acm == <<"A","c","m">>
NA_padded == <<" ","n","a"," ">>
Globex == <<"G","l","o","b","e","x">>
Nano == <<"N","a","n","o">>
GlobexCorp == <<"G","l","o","b","e","x"," ","C","o","r","p">>
bob_acme == <<"b","o","b","@","a","c","m","e",".","i","o">>
Bob_ACME == <<"B","o","b","@","A","C","M","E",".","I","O">>
amy_globex == <<"a","m","y","@","g","l","o","b","e","x",".","i","o">>
me_internal == <<"m","e","@","e","u","c","l","o","i","d",".","c","o","m">>
cloud_quote == <<"c","l","o","u","d"," ","q","u","o","t","e">>
Hello == <<"h","e","l","l","o">>
WebsiteRedesign == <<"W","e","b","s","i","t","e"," ","R","e","d","e","s","i","g","n">>
\* "mobile app website cloud training development redesign upgrade"
FullService ==
    project_terms[1] \o Sp \o project_terms[2] \o Sp \o project_terms[3] \o Sp
    \o project_terms[4] \o Sp \o project_terms[5] \o Sp \o project_terms[6] \o Sp
    \o project_terms[7]

Candidate(company, title, summary, email) ==
    [title |-> title, summary |-> summary,
     contact_company |-> company, contact_email |-> email]

Message(id, received, sender, subject, body, opps) ==
    [id |-> id, receivedDateTime |-> received, sender_email |-> sender,
     subject |-> subject, body |-> body, opps |-> opps]

SheetRow(n, company, title, summary) ==
    [id |-> SeedId(n), company |-> company, title |-> title,
     status |-> "New Lead", first_mention |-> 1, summary |-> summary, msg |-> "seed"]

(***************************************************************************)
(* The scenarios of Spec: what the sheet and the mailbox hold.             *)
(***************************************************************************)
Scenario(sheet, mail) == [sheet |-> sheet, archive |-> <<>>, mail |-> mail]

\* an email with one candidate, then an email without candidates
TwoEmails(sheet) ==
    Scenario(sheet,
        << Message("m1", 1, bob_acme, cloud_quote, Hello,
                   <<Candidate(Acme, cloud_quote, Hello, NoneVal)>>),
           Message("m2", 2, amy_globex, Hello, Hello, <<>>) >>)

\* the same company twice: in one email, and in the next email
SameCompany ==
    Scenario(<<>>,
        << Message("m1", 1, bob_acme, cloud_quote, Hello,
                   <<Candidate(Acme, cloud_quote, Hello, NoneVal),
                     Candidate(ACME_padded, Hello, Hello, NoneVal)>>),
           Message("m2", 2, bob_acme, Hello, Hello,
                   <<Candidate(Acme, Hello, Hello, bob_acme)>>) >>)

\* two rows qualify for "Acme": the first contains it, the second equals it
TwoQualify ==
    Scenario(<< SheetRow(1, AcmeCorp, WebsiteRedesign, Hello),
                SheetRow(2, Acme, cloud_quote, Hello) >>,
        << Message("m1", 1, bob_acme, Hello, Hello,
                   <<Candidate(ACME_padded, Hello, Hello, NoneVal),
                     Candidate(Acm, Hello, Hello, NoneVal)>>) >>)

\* the company of the row is inside the company of the candidate
Containment ==
    Scenario(<< SheetRow(1, Globex, WebsiteRedesign, Hello) >>,
        << Message("m1", 1, amy_globex, WebsiteRedesign, Hello,
                   <<Candidate(GlobexCorp, WebsiteRedesign, Hello, NoneVal)>>) >>)

\* candidates without a company, and rows without a company
Unnamed ==
    Scenario(<< SheetRow(1, NA, Hello, Hello), SheetRow(2, <<>>, Hello, Hello) >>,
        << Message("m1", 1, bob_acme, Hello, Hello,
                   <<Candidate(NA, cloud_quote, Hello, NoneVal),
                     Candidate(NA_padded, cloud_quote, Hello, NoneVal),
                     Candidate(<<>>, cloud_quote, Hello, NoneVal),
                     Candidate(NoneVal, cloud_quote, Hello, NoneVal)>>) >>)

\* an empty sheet and no historical mail: the only email comes from an
\* internal sender, which get_all_historical_emails leaves out
NoHistory ==
    Scenario(<<>>,
        << Message("m1", 1, me_internal, Hello, Hello,
                   <<Candidate(NA, cloud_quote, Hello, NoneVal)>>) >>)

\* rows without a company (an empty cell, and the "NA" that the program
\* writes for a general communication) and candidates with a company
ShortEntry ==
    Scenario(<< SheetRow(1, <<>>, WebsiteRedesign, Hello),
                SheetRow(2, NA, WebsiteRedesign, Hello) >>,
        << Message("m1", 1, bob_acme, Hello, Hello,
                   <<Candidate(Nano, cloud_quote, Hello, NoneVal),
                     Candidate(Acme, cloud_quote, Hello, NoneVal)>>) >>)

\* a candidate without a company whose title and summary share their words
\* with a row of another company
SharedWords ==
    Scenario(<< SheetRow(1, Globex, FullService, Hello) >>,
        << Message("m1", 1, bob_acme, Hello, Hello,
                   <<Candidate(NA, FullService,
                               FullService \o Sp \o FullService \o Sp \o FullService,
                               NoneVal)>>) >>)

\* the title of a row of another company names the company of the candidate
Mentioned ==
    Scenario(<< SheetRow(1, Globex, Acme \o Sp \o cloud_quote, Hello) >>,
        << Message("m1", 1, me_internal, Hello, Hello,
                   <<Candidate(Acme, WebsiteRedesign, Hello, NoneVal)>>) >>)

\* the address of the sender is in the summary of the second row and in the
\* title of the third; the second candidate has an address of its own
DomainInText ==
    Scenario(<< SheetRow(1, Globex, WebsiteRedesign, Hello),
                SheetRow(2, Globex, Hello, Bob_ACME),
                SheetRow(3, Globex, bob_acme, Hello) >>,
        << Message("m1", 1, bob_acme, Hello, Hello,
                   <<Candidate(NA, cloud_quote, Hello, NoneVal),
                     Candidate(NA, cloud_quote, Hello, amy_globex)>>) >>)

Scenarios ==
    { TwoEmails(<<>>), TwoEmails(<<SheetRow(1, Globex, WebsiteRedesign, Hello)>>),
      SameCompany, TwoQualify, Containment, Unnamed, NoHistory, ShortEntry,
      SharedWords, Mentioned, DomainInText }

InitWith(scenarios) ==
    /\ \E sc \in scenarios :
        /\ archive = sc.archive
        /\ pending = sc.mail
        /\ sheet_opportunities = sc.sheet
    /\ inbox = <<>>
    /\ sheet_interactions = <<>>
    /\ file_state = "absent"
    /\ file_ids = {}
    /\ timestamp_file = 0
    /\ cycle = 0
    /\ deviations = 0
    /\ uuid_count = 0
    /\ pc = "idle"
    /\ processed_emails = {}
    /\ existing_opportunities_list = <<>>
    /\ historical_emails = <<>>
    /\ new_messages = <<>>
    /\ msg_index = 1
    /\ opportunities = <<>>
    /\ opp_index = 1
    /\ new_opportunity_rows = <<>>
    /\ interaction_rows = <<>>
    /\ start_ids = {}
    /\ start_stamp = 0
    /\ start_state = "absent"
    /\ log = <<>>
    /\ inserted = 0
    /\ rejected = 0
    /\ saved = FALSE
    /\ list_failed = FALSE
    /\ candidates = 0
    /\ ended = "none"
    /\ failed_at = "none"

Init == InitWith(Scenarios)

Next ==
    \/ StartCycle
    \/ StartFails
    \/ ParseEmail
    \/ ResolveCandidate
    \/ ResolveGeneral
    \/ AppendOpportunities
    \/ AppendInteractions
    \/ save_processed_emails
    \/ write_last_run_timestamp

Spec == Init /\ [][Next]_vars

(***************************************************************************)
(* The claims.  The history variables describe the cycle that is running   *)
(* or has just ended: start_ids, start_stamp and start_state are the files *)
(* as the cycle found them, log holds one entry per resolution, inserted   *)
(* and rejected count the rows the store accepted and refused, saved says  *)
(* that save_processed_emails has succeeded, ended and failed_at say how   *)
(* the cycle ended.                                                        *)
(***************************************************************************)

\* C1: an event id that is in the processed-email file when a cycle starts
\* (it was processed by a cycle that persisted its state) is skipped by that
\* cycle even when the fetched window holds it again: the cycle resolves
\* nothing for it and emits no opportunity row and no interaction row for it.
C1_ProcessedIdsAreSkipped ==
    /\ \A i \in DOMAIN log : log[i].msg \notin start_ids
    /\ ended = "running" =>
        /\ \A i \in DOMAIN new_opportunity_rows :
                new_opportunity_rows[i].msg \notin start_ids
        /\ \A i \in DOMAIN interaction_rows :
                interaction_rows[i].msg \notin start_ids

\* a later cycle whose window holds an id persisted earlier has run to its end
\* and has resolved another email
C1_Witness ==
    /\ ended = "complete"
    /\ log # <<>>
    /\ \E i \in DOMAIN inbox : inbox[i].id \in start_ids

\* C2: the processed-email file and the timestamp are written only if the
\* store accepted every row of the cycle; when the store refuses a row, no
\* event id of the cycle is persisted.
C2_PersistOnlyIfAllWritten ==
    rejected > 0 =>
        /\ ~saved
        /\ file_ids = start_ids
        /\ timestamp_file = start_stamp

\* C3: when the list operation of the store fails, the cycle resolves no
\* event and persists nothing.
C3_ListFailureIsFatal ==
    list_failed => (log = <<>> /\ ~saved /\ file_ids = start_ids)

\* C4: a cycle that ends without having saved the processed ids has written
\* no row to the store.
C4_AllOrNothing ==
    (ended = "fatal" /\ ~saved) => inserted = 0

\* C5: when a cycle ends with an exception raised before the final save, the
\* processed-email file and the timestamp file are what they were when the
\* cycle started.
C5_AbortedCycleKeepsFiles ==
    (ended = "fatal"
       /\ failed_at \notin {"save_processed_emails", "write_last_run_timestamp"}) =>
        /\ file_ids = start_ids
        /\ file_state = start_state
        /\ timestamp_file = start_stamp

\* a cycle that had marked an email processed in memory and written rows is
\* ended by an exception of the row writer
C5_Witness ==
    /\ ended = "fatal"
    /\ failed_at = "append_rows_to_excel"
    /\ processed_emails # start_ids
    /\ inserted > 0

(***************************************************************************)
(* Claims about the resolution of one candidate.  An entry e of the log    *)
(* holds the candidate as it was matched (e.opp), the matching list as it  *)
(* was before the resolution (e.registry) and the outcome: e.id, e.tier    *)
(* (the place that decided), e.called (the model was asked) and e.created. *)
(***************************************************************************)
\* a company that is neither empty nor "na"
Named(company) == company # <<>> /\ company # na

\* the entries of a list whose company equals a normalised company
EqualEntries(company, registry) ==
    {k \in DOMAIN registry : Normal(registry[k].company) = company}

\* the entries of a list whose company equals a normalised company, or holds
\* it or is held by it, both being at least 4 characters long
QualifyingEntries(company, registry) ==
    {k \in DOMAIN registry :
        \E x \in {Normal(registry[k].company)} :
            \/ x = company
            \/ /\ Len(company) >= 4
               /\ Len(x) >= 4
               /\ (Contains(company, x) \/ Contains(x, company))}

\* C6, as stated: a candidate whose company equals (trimmed, lower-cased) the
\* company of an entry of the matching list is matched to an entry whose
\* company is equal, and the model is not asked.
C6_ExactCompanyMatches ==
    \A i \in DOMAIN log :
        \E company \in {Normal(log[i].opp.contact_company)} :
            (~log[i].general /\ EqualEntries(company, log[i].registry) # {}) =>
                /\ ~log[i].created
                /\ ~log[i].called
                /\ \E k \in EqualEntries(company, log[i].registry) :
                        log[i].registry[k].id = log[i].id

\* C6, amended: a candidate whose company is neither empty nor "na" and equals
\* the company of an entry of the matching list is matched by
\* simple_company_match to the first entry of the list that qualifies (equal,
\* or one holding the other with both at least 4 long), and the model is not
\* asked.
C6_FirstQualifyingEntryMatches ==
    \A i \in DOMAIN log :
        \E company \in {Normal(log[i].opp.contact_company)} :
            (/\ ~log[i].general
             /\ Named(company)
             /\ EqualEntries(company, log[i].registry) # {}) =>
                /\ log[i].tier = "simple"
                /\ ~log[i].created
                /\ ~log[i].called
                /\ log[i].id =
                     log[i].registry[Min(QualifyingEntries(company, log[i].registry))].id

\* a candidate was matched to an entry that holds its company although a
\* later entry equals it
C6_Witness ==
    \E i \in DOMAIN log :
        \E company \in {Normal(log[i].opp.contact_company)} :
            /\ ~log[i].general
            /\ Named(company)
            /\ EqualEntries(company, log[i].registry) # {}
            /\ Min(QualifyingEntries(company, log[i].registry))
                    \notin EqualEntries(company, log[i].registry)
            /\ log[i].tier = "simple"

\* C7: when a candidate with a company that is neither empty nor "na" has
\* created an opportunity, a candidate with the same company that is resolved
\* next in the run is matched to that opportunity by simple_company_match:
\* the model is not asked and no second opportunity is created.
C7_ReadYourWrites ==
    \A i \in 1..(Len(log) - 1) :
        \E company \in {Normal(log[i].opp.contact_company)} :
            (/\ ~log[i].general
             /\ log[i].created
             /\ Named(company)
             /\ ~log[i + 1].general
             /\ Normal(log[i + 1].opp.contact_company) = company) =>
                /\ log[i + 1].tier = "simple"
                /\ log[i + 1].id = log[i].id
                /\ ~log[i + 1].called
                /\ ~log[i + 1].created

\* a candidate created an opportunity and the next candidate, which writes
\* the same company differently, was matched to it
C7_Witness ==
    \E i \in 1..(Len(log) - 1) :
        /\ ~log[i].general
        /\ log[i].created
        /\ Named(Normal(log[i].opp.contact_company))
        /\ ~log[i + 1].general
        /\ Normal(log[i + 1].opp.contact_company) = Normal(log[i].opp.contact_company)
        /\ log[i + 1].opp.contact_company # log[i].opp.contact_company
        /\ log[i + 1].id = log[i].id

\* C8: no two opportunities created in one run have companies that are equal
\* after trimming and lower-casing, unless the company is empty or "na"; a
\* candidate whose company is the company of an entry of the matching list
\* does not create an opportunity.
C8_NoTwoRecordsForOneCompany ==
    /\ \A i, j \in DOMAIN new_opportunity_rows :
            (/\ i # j
             /\ Named(Normal(new_opportunity_rows[i].company))) =>
                Normal(new_opportunity_rows[i].company)
                    # Normal(new_opportunity_rows[j].company)
    /\ \A i \in DOMAIN log :
            \E company \in {Normal(log[i].opp.contact_company)} :
                (Named(company) /\ EqualEntries(company, log[i].registry) # {}) =>
                    ~log[i].created

\* a run created an opportunity and resolved, two resolutions later, a
\* candidate with the same company without creating another
C8_Witness ==
    \E i \in DOMAIN log :
        \E j \in (i + 2)..Len(log) :
            /\ log[i].created
            /\ Named(Normal(log[i].opp.contact_company))
            /\ Normal(log[j].opp.contact_company) = Normal(log[i].opp.contact_company)
            /\ ~log[j].created
            /\ Len(new_opportunity_rows) = 1

\* C9: a candidate whose company (trimmed, lower-cased) is held by the company
\* of an entry of the matching list, or holds it, both at least 4 characters
\* long, is matched to an entry of the list by simple_company_match or by the
\* score short-circuit, and the model is not asked.
C9_ContainmentNeverReachesTheModel ==
    \A i \in DOMAIN log :
        \E company \in {Normal(log[i].opp.contact_company)} :
            (\E k \in DOMAIN log[i].registry :
                \E x \in {Normal(log[i].registry[k].company)} :
                    /\ Len(company) >= 4
                    /\ Len(x) >= 4
                    /\ (Contains(company, x) \/ Contains(x, company))) =>
                /\ log[i].tier \in {"simple", "score"}
                /\ ~log[i].called
                /\ ~log[i].created
                /\ \E k \in DOMAIN log[i].registry : log[i].registry[k].id = log[i].id

\* a candidate whose company is strictly inside the company of an entry was
\* matched to it
C9_Witness ==
    \E i \in DOMAIN log :
        \E k \in DOMAIN log[i].registry :
            \E company \in {Normal(log[i].opp.contact_company)},
               x \in {Normal(log[i].registry[k].company)} :
                /\ Len(company) >= 4
                /\ company # x
                /\ Contains(company, x)
                /\ log[i].id = log[i].registry[k].id
                /\ log[i].tier = "simple"

\* C10: a candidate whose company is missing, empty or "NA" in any letter
\* case and with any surrounding whitespace is never matched by
\* simple_company_match, whatever the matching list holds.
C10_UnnamedNeverMatches ==
    \A i \in DOMAIN log :
        ~Named(Normal(log[i].opp.contact_company)) =>
            /\ log[i].tier # "simple"
            /\ simple_company_match(log[i].opp, log[i].registry) = NoneId

\* a candidate that writes "na" otherwise than "NA" was resolved against a
\* list that holds an entry with the same company
C10_Witness ==
    \E i \in DOMAIN log :
        \E company \in {Normal(log[i].opp.contact_company)} :
            /\ ~log[i].general
            /\ company = na
            /\ log[i].opp.contact_company # NA
            /\ EqualEntries(company, log[i].registry) # {}
            /\ log[i].tier # "simple"

\* C11: every resolved (email, candidate) pair emits exactly one interaction
\* row, whether it matched an opportunity or created one: while the cycle
\* runs there is one row per resolution, in the order of the resolutions and
\* carrying the resolved id, and at the end of the loop the number of rows is
\* the number of candidates, an email without candidates counting as one
C11_OneInteractionPerCandidate ==
    /\ ended = "running" =>
        /\ Len(interaction_rows) = Len(log)
        /\ \A i \in 1..Len(log) :
            /\ interaction_rows[i].id = log[i].id
            /\ interaction_rows[i].msg = log[i].msg
    /\ (ended = "running" /\ pc = "append_opportunities") =>
        Len(interaction_rows) = candidates

\* the loop has ended after a match, a creation and an email without candidates
C11_Witness ==
    /\ ended = "running"
    /\ pc = "append_opportunities"
    /\ \E i, j, k \in 1..Len(log) :
        /\ ~log[i].created /\ ~log[i].general
        /\ log[j].created /\ ~log[j].general
        /\ log[k].general
    /\ Len(interaction_rows) = candidates

\* the ids of a matching list
IdsOf(list) == {list[i].id : i \in 1..Len(list)}

PairwiseDistinct(list) ==
    \A i, j \in 1..Len(list) : i # j => list[i].id # list[j].id

\* C12: every creation takes an id that differs from every id of the matching
\* list at that moment, whether read from the sheet or created earlier in the
\* run, so that the ids of the list stay pairwise distinct
C12_CreatedIdsAreFresh ==
    /\ \A i \in 1..Len(log) :
        log[i].created =>
            /\ Truthy(log[i].id)
            /\ log[i].id \notin IdsOf(log[i].registry)
            /\ \A j \in 1..Len(log) : (j # i /\ log[j].created) => log[j].id # log[i].id
    /\ PairwiseDistinct(existing_opportunities_list)
    /\ \A i \in 1..Len(log) : PairwiseDistinct(log[i].registry)

\* a creation against a list that holds both a row of the sheet and an
\* opportunity created earlier in the run
C12_Witness ==
    \E i \in 1..Len(log) :
        /\ log[i].created
        /\ \E s, u \in IdsOf(log[i].registry) : s[1] = "seed" /\ s \in IdsOf(sheet_opportunities) /\ u[1] = "uuid"
        /\ IdsOf(log[i].registry) \cup {log[i].id} \subseteq IdsOf(existing_opportunities_list)

\* C13: for every created opportunity the first mention is not later than the
\* receipt of the email that triggered the creation, whatever the historical
\* mail and whatever the model answers
C13_FirstMentionNotAfterReceipt ==
    \A i \in 1..Len(log) :
        log[i].created => log[i].first_mention <= log[i].received

\* the resolutions in which the model was called and answered with JSON
Answered == {i \in 1..Len(log) : log[i].called /\ log[i].verdict.kind = "json"}

\* C14: a verdict of the model leads to a match only if it says match and its
\* confidence is at least the threshold, and the match is with the id the
\* verdict names; a verdict that says no match, or whose confidence is below
\* the threshold, leads to the creation of an opportunity
C14_VerdictAcceptedOnlyAboveThreshold ==
    \A i \in Answered :
        /\ ~log[i].created =>
            /\ log[i].verdict.match
            /\ log[i].verdict.confidence >= confidence_threshold
            /\ log[i].id = log[i].verdict.opportunity_id
        /\ (~log[i].verdict.match
                \/ log[i].verdict.confidence < confidence_threshold) =>
            /\ log[i].created
            /\ log[i].tier = "oracle_rejected"

\* the model names an opportunity of the list with a confidence below the
\* threshold, and the candidate is created
C14_Witness ==
    \E i \in Answered :
        /\ log[i].verdict.match
        /\ log[i].verdict.confidence < confidence_threshold
        /\ log[i].verdict.opportunity_id \in IdsOf(log[i].registry)
        /\ log[i].created

\* the resolutions in which the call of the model failed
OracleFailed ==
    {i \in 1..Len(log) : log[i].called /\ log[i].verdict.kind \in {"error", "malformed"}}

\* C15: when the call of the model for a candidate fails, by an error of the
\* call or by a response that is not JSON, the candidate counts as not
\* matched and an opportunity is created for it, dated at the receipt of the
\* email; the failure does not end the cycle, which goes on to resolve the
\* remaining candidates and emails
C15_OracleFailureIsLocal ==
    /\ failed_at # "find_related_opportunity_with_ai"
    /\ \A i \in OracleFailed :
        /\ log[i].tier = "oracle_failed"
        /\ log[i].created
        /\ ~log[i].mention_called
        /\ log[i].first_mention = log[i].received

\* a failed call was followed by the resolution of two more candidates, of
\* this email and of the next, and the cycle completed
C15_Witness ==
    /\ ended = "complete"
    /\ \E i \in OracleFailed :
        /\ log[i].verdict.kind = "error"
        /\ \E j, k \in (i + 1)..Len(log) : log[j].msg = log[i].msg /\ log[k].msg # log[i].msg

\* C16: when the extraction of candidates from an email fails, or returns a
\* value that is not a list of candidates, the email counts as having no
\* candidate and the cycle goes on: no cycle ends at the extraction
C16_ExtractionFailureNeverAborts ==
    ~(ended = "fatal" /\ failed_at = "parse_email_for_opportunities")

\* C17: when there is no relevant historical email for a new opportunity, the
\* earliest mention is not asked of the model and the first mention of the
\* new record is the receipt of the triggering email; so it is for a
\* candidate of company "NA" with an empty list and no historical mail
C17_NoHistoryFallsBackToReceipt ==
    \A i \in 1..Len(log) :
        (log[i].created /\ log[i].relevant = <<>>) =>
            /\ ~log[i].mention_called
            /\ log[i].mention = NoMention
            /\ log[i].first_mention = log[i].received
            /\ find_earliest_mention(log[i].relevant, PlainMention) = NoneTime

\* a candidate of company "NA" is created against an empty list and no
\* historical mail, dated at the receipt of its email
C17_Witness ==
    \E i \in 1..Len(log) :
        /\ log[i].tier = "empty"
        /\ log[i].registry = <<>>
        /\ historical_emails = <<>>
        /\ ~log[i].general
        /\ log[i].opp.contact_company = NA
        /\ log[i].created
        /\ log[i].first_mention = log[i].received

\* the company signal between a candidate and an entry of the list
SignalOf(new_opp, entry) ==
    CompanyScore(Normal(new_opp.contact_company),
                 lower(entry.title \o Sp \o entry.summary \o Sp \o OrEmpty(entry.company)),
                 Normal(entry.company))

\* the entry that a resolution returned
Matched(e) == {k \in DOMAIN e.registry : e.registry[k].id = e.id}

\* C18: the partial company signal is given to a candidate and an entry only
\* when one company holds the other and both are at least 4 characters
\* long; an entry whose company is empty, "NA" or shorter than 4 characters
\* never gets it, and the score short-circuit never returns such an entry
C18_PartialSignalNeedsBothLong ==
    \A i \in 1..Len(log) :
        /\ \A k \in DOMAIN log[i].registry :
            SignalOf(log[i].opp, log[i].registry[k]) = PARTIAL_COMPANY =>
                /\ Len(Normal(log[i].opp.contact_company)) >= 4
                /\ Len(Normal(log[i].registry[k].company)) >= 4
        /\ log[i].tier = "score" =>
            \A k \in Matched(log[i]) : Len(Normal(log[i].registry[k].company)) >= 4

\* C19: the score short-circuit returns an entry only when the exact or the
\* partial company signal fired between the candidate and that entry; the
\* domain, keyword and project-term signals alone never add up to it
C19_ShortCircuitNeedsCompanySignal ==
    \A i \in 1..Len(log) :
        log[i].tier = "score" =>
            \A k \in Matched(log[i]) :
                SignalOf(log[i].opp, log[i].registry[k]) \in {EXACT_COMPANY, PARTIAL_COMPANY}

\* no tier before the model has an answer for the resolution e: no entry
\* qualifies for the deterministic matcher, the sender's domain is in no
\* entry, and no entry scores 500 or more
Declined(e) ==
    \E company \in {Normal(e.opp.contact_company)} :
        /\ ~(Named(company) /\ QualifyingEntries(company, e.registry) # {})
        /\ \/ EmailDomain(e.opp) = <<>>
           \/ Priority2Hits(EmailDomain(e.opp), e.registry) = {}
        /\ \A k \in DOMAIN e.registry :
                Score(e.opp, e.registry[k]) < SHORT_CIRCUIT_SCORE

InOrder(e) ==
    \E declined \in {Declined(e)} :
        /\ e.called => declined
        /\ e.called <=> e.verdict # NoVerdict
        /\ e.created =>
            /\ declined
            /\ e.called \/ (e.tier = "empty" /\ e.registry = <<>>)
        /\ e.tier \in {"simple", "priority1", "domain", "score"} =>
            ~declined /\ ~e.called /\ ~e.created

\* C20: for every candidate the tiers run in the order deterministic match,
\* score, model: every step that resolves a candidate asks the model at most
\* once, and only when the deterministic matcher found no entry, the
\* sender's domain is in no entry and no entry scores 500 or more; it creates
\* an opportunity only when all of these declined and the model was asked, or
\* there was nothing to ask about
C20_TiersRunInOrder ==
    [][ /\ Len(log') <= Len(log) + 1
        /\ \A i \in 1..Len(log') : i > Len(log) => InOrder(log'[i]) ]_vars

\* with entries in the list, every tier declined, the model was asked and
\* said no, and the opportunity was created
C20_Witness ==
    \E i \in 1..Len(log) :
        /\ log[i].registry # <<>>
        /\ log[i].called
        /\ log[i].verdict = PlainVerdict
        /\ log[i].created
        /\ \E k \in DOMAIN log[i].registry : Score(log[i].opp, log[i].registry[k]) > 0

\* C21: within a cycle the emails not yet processed are resolved oldest
\* first, whatever the order in which the mail source returned them, so that
\* an opportunity created for an earlier email is in the matching list when
\* a later email of the batch is resolved
C21_OldestFirst ==
    /\ \A i, j \in DOMAIN new_messages :
            i < j => new_messages[i].receivedDateTime <= new_messages[j].receivedDateTime
    /\ \A i, j \in 1..Len(log) :
            i < j =>
                /\ log[i].received <= log[j].received
                /\ log[i].created => log[i].id \in IdsOf(log[j].registry)

\* two emails of one batch: the opportunity created for the older one is the
\* one that the newer one is matched to
C21_Witness ==
    \E i, j \in 1..Len(log) :
        /\ i < j
        /\ log[i].received < log[j].received
        /\ log[i].msg # log[j].msg
        /\ log[i].created
        /\ ~log[j].created
        /\ log[j].id = log[i].id

\* the list that the cycle started with: the rows of the sheet, or nothing
\* when the sheet could not be read
Seed == IF list_failed THEN <<>> ELSE get_existing_opportunities_for_ai(sheet_opportunities)

\* the resolutions of the cycle that created an opportunity, in order
Creations == SelectSeqIdx(log, {i \in 1..Len(log) : log[i].created})

\* C22: the matching list is changed only by the creation of an opportunity,
\* which appends one entry for it; a match, a failed call of the model and a
\* failed extraction change nothing by themselves, and no entry is removed or
\* modified: during the loop the list is the seed followed by the
\* opportunities created so far, in the order of their creation
C22_ListIsSeedThenCreations ==
    (ended = "running" /\ pc \in {"parse", "resolve", "general", "append_opportunities"}) =>
        /\ Len(existing_opportunities_list) = Len(Seed) + Len(Creations)
        /\ SubSeq(existing_opportunities_list, 1, Len(Seed)) = Seed
        /\ \A k \in 1..Len(Creations) :
            \E entry \in {existing_opportunities_list[Len(Seed) + k]} :
                /\ entry.id = Creations[k].id
                /\ entry.company = GetOr(Creations[k].opp.contact_company, NA)
        /\ \A k \in 1..Len(new_opportunity_rows) :
                new_opportunity_rows[k].id = Creations[k].id
        /\ Len(new_opportunity_rows) = Len(Creations)

\* the loop has ended with a seeded list, two creations and a match
C22_Witness ==
    /\ ended = "running"
    /\ pc = "append_opportunities"
    /\ Seed # <<>>
    /\ Len(Creations) >= 2
    /\ \E i \in 1..Len(log) : ~log[i].created
    /\ Len(existing_opportunities_list) = Len(Seed) + Len(Creations)

\* C23, as stated: simple_company_match returns the id of the first entry of
\* the list whose company equals the company of the candidate, or holds it or
\* is held by it with both at least 4 long, and None exactly when no entry
\* qualifies
C23_FirstQualifyingOrNone ==
    \A i \in DOMAIN log :
        \E hits \in {QualifyingEntries(Normal(log[i].opp.contact_company), log[i].registry)} :
        \E result \in {simple_company_match(log[i].opp, log[i].registry)} :
            IF hits # {}
            THEN result = log[i].registry[Min(hits)].id
            ELSE result = NoneId

\* C23, amended: the same for a candidate whose company is neither empty nor
\* "na"; for a candidate without a company simple_company_match returns None
\* whatever the list holds.  Its result is what main() takes as the match.
C23_FirstQualifyingOrNoneIfNamed ==
    \A i \in DOMAIN log :
        \E company \in {Normal(log[i].opp.contact_company)} :
        \E hits \in {QualifyingEntries(company, log[i].registry)} :
        \E result \in {simple_company_match(log[i].opp, log[i].registry)} :
            IF Named(company) /\ hits # {}
            THEN /\ result = log[i].registry[Min(hits)].id
                 /\ log[i].tier = "simple"
                 /\ log[i].id = result
            ELSE /\ result = NoneId
                 /\ log[i].tier # "simple"

\* two entries qualify for the candidate and the first of them was returned
C23_Witness ==
    \E i \in DOMAIN log :
        \E hits \in {QualifyingEntries(Normal(log[i].opp.contact_company), log[i].registry)} :
            /\ Named(Normal(log[i].opp.contact_company))
            /\ Cardinality(hits) >= 2
            /\ log[i].tier = "simple"
            /\ log[i].id = log[i].registry[Min(hits)].id
            /\ log[i].id # log[i].registry[Max(hits)].id

\* the relevant emails of a resolution, oldest first
OldestFirst(relevant) ==
    LET Before(x, y) == x.received_date < y.received_date
    IN  SortedBy(relevant, Before)

\* the model named, with a confidence of at least 0.7, a position of the list
\* of relevant emails, counted from 1
NamedMention(e) ==
    /\ e.mention_called
    /\ e.mention.kind = "json"
    /\ e.mention.confidence >= mention_threshold
    /\ e.mention.email_number \in 1..Len(e.relevant)

\* C24: the first mention of a new opportunity differs from the receipt of
\* the triggering email only when the model named, with a confidence of at
\* least 0.7, a position (from 1) of the relevant emails in ascending order of
\* time, and then it is the time of that email; with a lower confidence, a
\* null or out-of-range position, or an error, it is the receipt
C24_FirstMentionIsNamedEmailOrReceipt ==
    \A i \in DOMAIN log :
        log[i].created =>
            IF NamedMention(log[i])
            THEN log[i].first_mention =
                    OldestFirst(log[i].relevant)[log[i].mention.email_number].received_date
            ELSE log[i].first_mention = log[i].received

\* C25: when the matching list and the historical mail are both empty,
\* find_related_opportunity_with_ai does not call the model: it returns no
\* match, and the opportunity is created
C25_NothingToAskAbout ==
    \A i \in DOMAIN log :
        (log[i].registry = <<>> /\ historical_emails = <<>>) =>
            /\ ~log[i].called
            /\ log[i].verdict = NoVerdict
            /\ log[i].tier = "empty"
            /\ log[i].created
            /\ log[i].relevant = <<>>

\* an email without candidates is resolved against an empty list and no
\* historical mail
C25_Witness ==
    \E i \in DOMAIN log :
        /\ log[i].general
        /\ log[i].registry = <<>>
        /\ historical_emails = <<>>
        /\ ~log[i].called
        /\ log[i].created

\* the weights of the company signals that hold between a company and an
\* entry, each taken by itself and added up
CompanySignals(new_company, opp_text, opp_company) ==
    LET named == new_company # <<>> /\ new_company # na
    IN  (IF named /\ opp_company = new_company THEN EXACT_COMPANY ELSE 0)
        + (IF /\ named
              /\ Len(new_company) > 3
              /\ Contains(new_company, opp_company) \/ Contains(opp_company, new_company)
           THEN PARTIAL_COMPANY ELSE 0)
        + (IF named /\ Contains(new_company, opp_text) THEN COMPANY_IN_TEXT ELSE 0)

\* the resolutions in which the scorer ran
Scored == {i \in DOMAIN log : log[i].tier = "score" \/ log[i].called}

\* C26: the score of a candidate and an entry is the sum of the weights of
\* all the signals that hold for them, the signals not excluding one
\* another: in particular the company part of the score is the sum of the
\* weights of the company signals that hold
C26_SignalsAreAdditive ==
    \A i \in Scored :
        \A k \in DOMAIN log[i].registry :
            \E entry \in {log[i].registry[k]} :
                SignalOf(log[i].opp, entry) =
                    CompanySignals(Normal(log[i].opp.contact_company),
                        lower(entry.title \o Sp \o entry.summary \o Sp \o OrEmpty(entry.company)),
                        Normal(entry.company))

\* C27: the keyword list of a candidate holds no token twice, no token of 2
\* characters or less and no stop word, so that a keyword found in the text
\* of an entry adds 10 to the score of that entry once, however often the
\* candidate has it
C27_KeywordsCountOnce ==
    \A i \in Scored :
        \E keywords \in {Normalised(log[i].opp).keywords} :
            /\ \A a, b \in DOMAIN keywords : a # b => keywords[a] # keywords[b]
            /\ \A a \in DOMAIN keywords :
                    Len(keywords[a]) > 2 /\ lower(keywords[a]) \notin common_words
            /\ \A k \in DOMAIN log[i].registry :
                \E opp_text \in {lower(log[i].registry[k].title \o Sp
                                        \o log[i].registry[k].summary \o Sp
                                        \o OrEmpty(log[i].registry[k].company))} :
                    KeywordScore(keywords, opp_text) =
                        KEYWORD_WEIGHT * Cardinality({keywords[a] : a \in
                            {b \in DOMAIN keywords : Contains(lower(keywords[b]), opp_text)}})

\* of two entries of the list, the one at position p came to the store after
\* the one at position q.  The first `seeded` entries are the rows of the
\* sheet from the top, and append_rows_to_excel inserts every new row at the
\* top (lines 578-583), so of two rows the upper one is the newer; an opportunity
\* made in this run is newer than every entry before it
AddedAfter(seeded, p, q) ==
    IF p > seeded THEN q < p ELSE q <= seeded /\ p < q

\* C28: the entries are ranked by score, the highest first, and of two
\* entries with the same score the one added most recently comes first; the
\* model is shown the first 30 of that order at most, and the score
\* short-circuit takes its first entry
C28_RankedByScoreThenRecency ==
    \A i \in Scored :
        \E ranked \in {ScoredOpportunities(log[i].opp, log[i].registry)},
           seeded \in {Len(log[i].registry)
                        - Cardinality({j \in 1..(i - 1) : log[j].created})} :
            /\ \A a, b \in DOMAIN ranked :
                a < b =>
                    /\ ranked[a].score >= ranked[b].score
                    /\ ranked[a].score = ranked[b].score =>
                            ~AddedAfter(seeded, ranked[b].pos, ranked[a].pos)
            /\ Len(TopOpportunities(log[i].opp, log[i].registry)) <= TOP_OPPORTUNITIES
            /\ log[i].tier = "score" => log[i].id = ranked[1].opp.id

\* C29: every interaction that is recorded for an opportunity that was not
\* made for it carries the id of an entry that is in the list when the
\* interaction is recorded, whichever tier found the id, the answer of the
\* model included
C29_InteractionIdIsInTheList ==
    \A i \in 1..Len(log) :
        ~log[i].created /\ Truthy(log[i].id) =>
            log[i].id \in IdsOf(log[i].registry)

\* the entries of a list whose title or whose summary holds a domain,
\* whatever the case of the letters
DomainEntries(domain, registry) ==
    {k \in DOMAIN registry :
        \/ Contains(domain, lower(registry[k].title))
        \/ Contains(domain, lower(registry[k].summary))}

\* C30: a candidate for which no entry is a company match and the domain of
\* whose email address (its own, or else the sender's) is in the title or in
\* the summary of an entry is matched to the first such entry of the list:
\* nothing is scored, the model is not asked, no opportunity is created and
\* no relevant historical email is returned
C30_DomainMatchesFirstEntry ==
    \A i \in DOMAIN log :
        \E company \in {Normal(log[i].opp.contact_company)},
           hits \in {DomainEntries(EmailDomain(log[i].opp), log[i].registry)} :
            /\ ~(Named(company) /\ Priority1Hits(company, log[i].registry) # {})
            /\ EmailDomain(log[i].opp) # <<>>
            /\ hits # {}
            => /\ log[i].tier = "domain"
               /\ log[i].id = log[i].registry[Min(hits)].id
               /\ ~log[i].called
               /\ log[i].verdict = NoVerdict
               /\ ~log[i].created
               /\ log[i].relevant = <<>>
               /\ ~log[i].mention_called

\* the domain of the sender is in the second and in the third entry of three,
\* and the candidate went to the second
C30_Witness ==
    \E i \in DOMAIN log :
        /\ log[i].tier = "domain"
        /\ DomainEntries(EmailDomain(log[i].opp), log[i].registry) = {2, 3}
        /\ log[i].id = log[i].registry[2].id

\* the set that load_processed_emails returned at the start of the cycle
Loaded == IF start_state = "ok" THEN start_ids ELSE {}

\* C31: the set of processed ids in the file only grows: when a cycle has
\* saved it, the file holds the set loaded at the start of the cycle and the
\* ids of all the emails resolved in the cycle, and nothing else; when no new
\* email was left after the filter, the file holds the loaded set, no
\* candidate was resolved and no row was made or written
C31_ProcessedIdsOnlyGrow ==
    saved =>
        /\ file_state = "ok"
        /\ Loaded \subseteq file_ids
        /\ file_ids = Loaded \cup {new_messages[i].id : i \in DOMAIN new_messages}
        /\ file_ids = Loaded \cup {log[i].msg : i \in DOMAIN log}
        /\ new_messages = <<>> =>
            /\ file_ids = Loaded
            /\ log = <<>>
            /\ new_opportunity_rows = <<>>
            /\ interaction_rows = <<>>
            /\ inserted = 0

\* a cycle that loaded a set with an id in it has saved a larger set
C31_Witness ==
    /\ saved
    /\ Loaded # {}
    /\ file_ids # Loaded


=============================================================================
